---- MODULE Spec2Model ----
(***************************************************************************)
(* A model of the computing core of the investment research application:   *)
(* the valuation engine (src/services/valuation_calculator.py) with the    *)
(* DCF computation calculate_dcf, its sensitivity table, the peer          *)
(* percentile ranking of compare_with_peers and the fair value range; the  *)
(* valuation part of the analysis flow (src/app.py); the technical         *)
(* indicators of src/services/market_data_service.py; and the threads of   *)
(* the server that call them on the shared service instances.              *)
(*                                                                         *)
(* Python floats are modelled as exact rationals over unbounded naturals   *)
(* (sequences of limbs, because TLC's integers are 32 bits wide),          *)
(* extended with the IEEE values inf, -inf and nan that numpy's division   *)
(* by zero produces.  Rounding error of the binary format is not modelled. *)
(***************************************************************************)
EXTENDS Integers, Sequences, FiniteSets, TLC

(***************************************************************************)
(* Unbounded naturals: little-endian sequences of limbs, no leading zero   *)
(* limb; << >> is zero.                                                    *)
(***************************************************************************)
Base == 100 * 100

RECURSIVE NTrim(_)
NTrim(a) ==
  IF a = <<>> THEN a
  ELSE IF a[Len(a)] = 0 THEN NTrim(SubSeq(a, 1, Len(a) - 1)) ELSE a

RECURSIVE NFromInt(_)
NFromInt(n) == IF n = 0 THEN <<>> ELSE <<n % Base>> \o NFromInt(n \div Base)

\* the values given by a function on 1..n, as a series
Series(n, value) == SubSeq(value, 1, n)

\* the sum of a series, by halves
RECURSIVE Sum(_)
Sum(values) ==
  IF values = <<>> THEN 0
  ELSE IF Len(values) = 1 THEN values[1]
  ELSE LET mid == Len(values) \div 2
       IN  Sum(SubSeq(values, 1, mid)) + Sum(SubSeq(values, mid + 1, Len(values)))

\* the i-th limb, 0 beyond the most significant one
NLimb(a, i) == IF i <= Len(a) THEN a[i] ELSE 0

\* the carry out of limb i of a + b: a limb sum of Base - 1 passes on the
\* carry of the limb below
RECURSIVE NCarry(_, _, _)
NCarry(a, b, i) ==
  IF i = 0 THEN 0
  ELSE LET x == NLimb(a, i) + NLimb(b, i)
       IN  IF x >= Base THEN 1
           ELSE IF x = Base - 1 THEN NCarry(a, b, i - 1)
           ELSE 0

NAdd(a, b) ==
  LET n == IF Len(a) < Len(b) THEN Len(b) ELSE Len(a)
  IN  NTrim(Series(n + 1, [i \in 1..(n + 1) |->
               (NLimb(a, i) + NLimb(b, i) + NCarry(a, b, i - 1)) % Base]))

\* the borrow out of limb i of a - b
RECURSIVE NBorrow(_, _, _)
NBorrow(a, b, i) ==
  IF i = 0 THEN 0
  ELSE LET x == NLimb(a, i) - NLimb(b, i)
       IN  IF x < 0 THEN 1
           ELSE IF x = 0 THEN NBorrow(a, b, i - 1)
           ELSE 0

\* a - b for a >= b
NSub(a, b) ==
  NTrim(Series(Len(a), [i \in 1..Len(a) |->
           (NLimb(a, i) - NLimb(b, i) - NBorrow(a, b, i - 1) + Base) % Base]))

\* -1, 0, 1 as a < b, a = b, a > b; the most significant limb decides
RECURSIVE NCmpSame(_, _, _)
NCmpSame(a, b, i) ==
  IF i = 0 THEN 0
  ELSE IF a[i] < b[i] THEN -1
  ELSE IF a[i] > b[i] THEN 1
  ELSE NCmpSame(a, b, i - 1)

NCmp(a, b) ==
  IF Len(a) < Len(b) THEN -1
  ELSE IF Len(a) > Len(b) THEN 1
  ELSE NCmpSame(a, b, Len(a))

\* the sum of the numbers of a list
RECURSIVE NSum(_)
NSum(numbers) ==
  IF Len(numbers) = 1 THEN numbers[1] ELSE NAdd(numbers[1], NSum(Tail(numbers)))

\* the limbs of b a product takes at once: their column sums stay below 2^31
MulLimbs == 21

\* the low, the middle and the high limbs of n column sums, each list shifted
\* to its place
NPlaces(n, column) ==
  Series(3, [place \in 1..3 |->
    Series(n + place - 1, [k \in 1..(n + place - 1) |->
      IF k < place THEN 0
      ELSE IF place = 1 THEN column[k] % Base
      ELSE IF place = 2 THEN (column[k - 1] \div Base) % Base
      ELSE column[k - 2] \div (Base * Base)])])

\* column k of a * b: the sum of the products b[j] * a[k + 1 - j]
NColumn(a, b, k, lo, hi) ==
  Sum(Series(hi - lo + 1, [j \in 1..(hi - lo + 1) |-> b[lo + j - 1] * a[k + 2 - lo - j]]))

\* a * b is the sum of the numbers of this list.  For b of at most MulLimbs limbs a
\* column sum is a number of three limbs, and the product is the sum of the
\* low, the middle and the high limbs of the columns.  A longer b is taken
\* MulLimbs limbs at a time.
RECURSIVE NMul(_, _)
NMulParts(a, b) ==
  IF Len(b) > MulLimbs
    THEN <<NMul(a, NTrim(SubSeq(b, 1, MulLimbs))),
           [i \in 1..MulLimbs |-> 0] \o NMul(a, SubSeq(b, MulLimbs + 1, Len(b)))>>
  ELSE NPlaces(Len(a) + Len(b) - 1,
               Series(Len(a) + Len(b) - 1, [k \in 1..(Len(a) + Len(b) - 1) |->
                 NColumn(a, b, k, IF k > Len(a) THEN k + 1 - Len(a) ELSE 1,
                         IF k < Len(b) THEN k ELSE Len(b))]))

NMul(a, b) ==
  IF a = <<>> \/ b = <<>> THEN <<>>
  ELSE IF a = <<1>> THEN b
  ELSE IF b = <<1>> THEN a
  ELSE IF Len(a) = 1 /\ Len(b) = 1 THEN NFromInt(a[1] * b[1])
  ELSE NSum(NMulParts(a, b))

\* a^k by repeated squaring
RECURSIVE NPow(_, _)
NPow(a, k) ==
  IF k = 0 THEN <<1>>
  ELSE LET half   == NPow(a, k \div 2)
           square == NMul(half, half)
       IN  IF k % 2 = 0 THEN square ELSE NMul(a, square)

(***************************************************************************)
(* Rationals: sign s in {-1, 0, 1}, magnitude n / d with d > 0.  Large     *)
(* fractions are not reduced; equality and order are decided by cross      *)
(* products (QEq, QCmp), never by comparing representations.               *)
(***************************************************************************)
Abs(i) == IF i < 0 THEN -i ELSE i
Sgn(i) == IF i < 0 THEN -1 ELSE IF i > 0 THEN 1 ELSE 0

RECURSIVE GCD(_, _)
GCD(a, b) == IF b = 0 THEN a ELSE GCD(b, a % b)

\* a fraction whose two parts fit one limb is stored in lowest terms
QMake(s, n, d) ==
  IF n = <<>> THEN [s |-> 0, n |-> n, d |-> <<1>>]
  ELSE IF Len(n) = 1 /\ Len(d) = 1
       THEN LET g == GCD(n[1], d[1])
            IN  [s |-> s, n |-> <<n[1] \div g>>, d |-> <<d[1] \div g>>]
       ELSE [s |-> s, n |-> n, d |-> d]
QRat(p, q)  == QMake(Sgn(p) * Sgn(q), NFromInt(Abs(p)), NFromInt(Abs(q)))
QInt(i)     == [s |-> Sgn(i), n |-> NFromInt(Abs(i)), d |-> <<1>>]
QNeg(a)     == QMake(-a.s, a.n, a.d)
QAbs(a)     == QMake(Abs(a.s), a.n, a.d)
QMul(a, b)  == QMake(a.s * b.s, NMul(a.n, b.n), NMul(a.d, b.d))
\* b is not zero
QDiv(a, b)  == QMake(a.s * b.s, NMul(a.n, b.d), NMul(a.d, b.n))
\* the difference of two numbers, the larger one first
NDiff(pair) == NSub(pair[1], pair[2])
\* s1 * u / d + s2 * v / d for signs s1, s2 that are not zero
QAddParts(s1, u, s2, v, d) ==
  QMake(IF s1 = s2 \/ NCmp(u, v) >= 0 THEN s1 ELSE s2,
        IF s1 = s2 THEN NAdd(u, v)
        ELSE NDiff(IF NCmp(u, v) >= 0 THEN <<u, v>> ELSE <<v, u>>),
        d)
QAdd(a, b)  ==
  IF a.s = 0 THEN b
  ELSE IF b.s = 0 THEN a
  ELSE QAddParts(a.s, IF a.d = b.d THEN a.n ELSE NMul(a.n, b.d),
                 b.s, IF a.d = b.d THEN b.n ELSE NMul(b.n, a.d),
                 IF a.d = b.d THEN a.d ELSE NMul(a.d, b.d))
QSub(a, b)  == QAdd(a, QNeg(b))
\* -1, 0, 1 as a < b, a = b, a > b
QCmp(a, b)  ==
  IF a.s # b.s THEN (IF a.s < b.s THEN -1 ELSE 1)
  ELSE IF a.s = 0 THEN 0
  ELSE a.s * NCmp(NMul(a.n, b.d), NMul(b.n, a.d))
QEq(a, b)   == QCmp(a, b) = 0
QLt(a, b)   == QCmp(a, b) < 0
QLe(a, b)   == QCmp(a, b) <= 0

\* a^k by repeated squaring
RECURSIVE QPow(_, _)
QPow(a, k) ==
  IF k = 0 THEN QInt(1)
  ELSE LET half   == QPow(a, k \div 2)
           square == QMul(half, half)
       IN  IF k % 2 = 0 THEN square ELSE QMul(a, square)


(***************************************************************************)
(* Floats: a finite rational, or one of inf, -inf (sign in q), nan.        *)
(* FDiv is numpy's division: a zero divisor yields inf or nan.             *)
(***************************************************************************)
Fin(q)   == [k |-> "fin", q |-> q]
FInt(i)  == Fin(QInt(i))
FInf(s)  == [k |-> "inf", q |-> QInt(s)]
FNaN     == [k |-> "nan", q |-> QInt(0)]
FNeg(a)  == [k |-> a.k, q |-> QNeg(a.q)]
FAdd(a, b) ==
  IF a.k = "nan" \/ b.k = "nan" THEN FNaN
  ELSE IF a.k = "inf" /\ b.k = "inf" THEN (IF a.q.s = b.q.s THEN a ELSE FNaN)
  ELSE IF a.k = "inf" THEN a
  ELSE IF b.k = "inf" THEN b
  ELSE Fin(QAdd(a.q, b.q))
FSub(a, b) == FAdd(a, FNeg(b))
FMul(a, b) ==
  IF a.k = "nan" \/ b.k = "nan" THEN FNaN
  ELSE IF a.k = "inf" \/ b.k = "inf"
       THEN (IF a.q.s * b.q.s = 0 THEN FNaN ELSE FInf(a.q.s * b.q.s))
  ELSE Fin(QMul(a.q, b.q))
FDiv(a, b) ==
  IF a.k = "nan" \/ b.k = "nan" THEN FNaN
  ELSE IF b.k = "inf" THEN (IF a.k = "inf" THEN FNaN ELSE FInt(0))
  ELSE IF b.q.s = 0 THEN (IF a.q.s = 0 THEN FNaN ELSE FInf(a.q.s))
  ELSE IF a.k = "inf" THEN FInf(a.q.s * b.q.s)
  ELSE Fin(QDiv(a.q, b.q))
FAbs(a) == [k |-> a.k, q |-> QAbs(a.q)]
\* a > 0; every comparison with nan is false
FPositive(a) == a.k # "nan" /\ a.q.s > 0
FEq(a, b) == a.k = "fin" /\ b.k = "fin" /\ QEq(a.q, b.q)

RECURSIVE FPow(_, _)
FPow(a, k) == IF k = 0 THEN FInt(1) ELSE FMul(a, FPow(a, k - 1))

\* a rate given in percent, as the float the caller passes
Rate(r) == Fin(QRat(r, 100))


(***************************************************************************)
(* Python values read from the data provider: a number or None.  A dict    *)
(* is a function from its keys; a DataFrame is a function from its row     *)
(* labels to the row's period values, most recent period first.            *)
(***************************************************************************)
PyNum(i) == [t |-> "num", v |-> i]
PyNone   == [t |-> "None", v |-> 0]

Range(seq) == {seq[i] : i \in DOMAIN seq}

\* dict.get(key, default)
Get(dict, key, default) == IF key \in DOMAIN dict THEN dict[key] ELSE PyNum(default)

\* DataFrame.empty
FrameEmpty(frame) == DOMAIN frame = {}

VARIABLES
  ticker,   \* what yf.Ticker(symbol) yields for the subject: symbol, ok, sector,
            \* cashflow, balance_sheet, info
  peers,    \* what yf.Ticker(peer symbol) yields for each peer: ok, info
  hist,     \* what ticker.history(period="1y") yields: the closes, oldest first
  last,     \* the call being served: op, growth_rate, discount_rate, result
  calls,    \* the request each server thread is serving: pc, op, result
  locals    \* the local variables of each call: what it fetched

vars == <<ticker, peers, hist, last, calls, locals>>

(***************************************************************************)
(* ValuationCalculator.__init__                                            *)
(***************************************************************************)
risk_free_rate == 4
market_risk_premium == 6

(***************************************************************************)
(* ValuationCalculator.calculate_dcf                                       *)
(***************************************************************************)
DefaultGrowthRate == 5
DefaultDiscountRate == 10
ProjectionYears == 5
TerminalYear == 5

\* frame.loc[label].iloc[0] if not frame.loc[label].empty else 0, or 0 when
\* the label is not in the index (lines 46-49, 71-79)
mrq_value(frame, label) ==
  IF label \in DOMAIN frame
    THEN (IF Len(frame[label]) > 0 THEN FInt(frame[label][1]) ELSE FInt(0))
    ELSE FInt(0)

operating_cf_of(cash_flow) == mrq_value(cash_flow, "Operating Cash Flow")

\* the capital expenditure taken with its sign
capex_of_signed(cash_flow) == mrq_value(cash_flow, "Capital Expenditure")

capex_of(cash_flow) ==
  IF "Capital Expenditure" \in DOMAIN cash_flow
    THEN (IF Len(cash_flow["Capital Expenditure"]) > 0
            THEN FAbs(FInt(cash_flow["Capital Expenditure"][1]))
            ELSE FInt(0))
    ELSE FInt(0)

free_cash_flow_of(cash_flow) == FSub(operating_cf_of(cash_flow), capex_of(cash_flow))

\* fcf is a numpy float when it was read from the frame, the Python int 0
\* when neither line is in the index
fcf_is_numpy(cash_flow) ==
  \/ "Operating Cash Flow" \in DOMAIN cash_flow
  \/ "Capital Expenditure" \in DOMAIN cash_flow

terminal_value_of(fcf, growth_rate, discount_rate) ==
  FDiv(FMul(fcf, FAdd(FInt(1), growth_rate)), FSub(discount_rate, growth_rate))

RECURSIVE pv_fcf_loop(_, _, _, _, _)
pv_fcf_loop(pv_fcf, year, fcf, growth_rate, discount_rate) ==
  IF year > ProjectionYears THEN pv_fcf
  ELSE LET future_fcf == FMul(fcf, FPow(FAdd(FInt(1), growth_rate), year))
       IN  pv_fcf_loop(FAdd(pv_fcf, FDiv(future_fcf, FPow(FAdd(FInt(1), discount_rate), year))),
                       year + 1, fcf, growth_rate, discount_rate)

\* the five years taken undiscounted, as _calculate_dcf_basic does
pv_fcf_of_simplified(fcf, growth_rate, discount_rate) == FMul(fcf, FInt(ProjectionYears))

pv_fcf_of(fcf, growth_rate, discount_rate) ==
  pv_fcf_loop(FInt(0), 1, fcf, growth_rate, discount_rate)

\* the terminal value discounted one year more
enterprise_value_of_late(pv_fcf, terminal_value, discount_rate) ==
  FAdd(pv_fcf, FDiv(terminal_value, FPow(FAdd(FInt(1), discount_rate), TerminalYear + 1)))

enterprise_value_of(pv_fcf, terminal_value, discount_rate) ==
  FAdd(pv_fcf, FDiv(terminal_value, FPow(FAdd(FInt(1), discount_rate), TerminalYear)))

\* the enterprise value taken as the equity value
equity_value_of_gross(enterprise_value, balance_sheet) == enterprise_value

equity_value_of(enterprise_value, balance_sheet) ==
  FAdd(FSub(enterprise_value, mrq_value(balance_sheet, "Total Debt")),
       mrq_value(balance_sheet, "Cash"))

\* equity_value / shares_outstanding if shares_outstanding > 0 else 0
per_share_value_of(equity_value, shares_outstanding) ==
  IF shares_outstanding > 0 THEN FDiv(equity_value, FInt(shares_outstanding)) ELSE FInt(0)

\* (per_share_value - current_price) / current_price if current_price > 0 else 0
upside_potential_of(per_share_value, current_price) ==
  IF current_price > 0
    THEN FDiv(FSub(per_share_value, FInt(current_price)), FInt(current_price))
    ELSE FInt(0)

DcfError(msg) == [error |-> msg]

\* every value is computed once and handed on to the values computed from it
dcf_values(t, growth_rate, discount_rate) ==
  LET shares        == Get(t.info, "sharesOutstanding", 1)
      current_price == Get(t.info, "regularMarketPrice", 0)
      result(fcf, terminal_value, enterprise_value, equity_value, per_share_value) ==
        IF discount_rate = growth_rate /\ ~fcf_is_numpy(t.cashflow)
          THEN DcfError("DCF calculation failed: float division by zero")
        ELSE IF shares = PyNone \/ current_price = PyNone
          THEN DcfError("DCF calculation failed: '>' not supported between instances of 'NoneType' and 'int'")
        ELSE [dcf_value_per_share |-> per_share_value,
              current_price       |-> current_price.v,
              upside_potential    |-> upside_potential_of(per_share_value, current_price.v),
              enterprise_value    |-> enterprise_value,
              equity_value        |-> equity_value,
              free_cash_flow      |-> fcf,
              terminal_value      |-> terminal_value,
              assumptions         |-> [growth_rate         |-> growth_rate,
                                       discount_rate       |-> discount_rate,
                                       risk_free_rate      |-> risk_free_rate,
                                       market_risk_premium |-> market_risk_premium]]
      with_equity_value(fcf, terminal_value, enterprise_value, equity_value) ==
        result(fcf, terminal_value, enterprise_value, equity_value,
               per_share_value_of(equity_value, shares.v))
      with_enterprise_value(fcf, terminal_value, enterprise_value) ==
        with_equity_value(fcf, terminal_value, enterprise_value,
                          equity_value_of(enterprise_value, t.balance_sheet))
      with_terminal_value(fcf, terminal_value) ==
        with_enterprise_value(fcf, terminal_value,
          enterprise_value_of(pv_fcf_of(fcf, Rate(growth_rate), Rate(discount_rate)),
                              terminal_value, Rate(discount_rate)))
      with_fcf(fcf) ==
        with_terminal_value(fcf, terminal_value_of(fcf, Rate(growth_rate), Rate(discount_rate)))
  IN  with_fcf(free_cash_flow_of(t.cashflow))

\* without the check of cash_flow.empty
calculate_dcf_unguarded(t, growth_rate, discount_rate) ==
  IF ~t.ok THEN DcfError("DCF calculation failed: fetch")
  ELSE dcf_values(t, growth_rate, discount_rate)

calculate_dcf(t, growth_rate, discount_rate) ==
  IF ~t.ok THEN DcfError("DCF calculation failed: fetch")
  ELSE IF FrameEmpty(t.cashflow) THEN DcfError("No cash flow data available")
  ELSE dcf_values(t, growth_rate, discount_rate)

(***************************************************************************)
(* ValuationCalculator.calculate_sensitivity_analysis                      *)
(***************************************************************************)
growth_rates   == <<2, 5, 8, 10>>
discount_rates == <<8, 10, 12, 15>>

NoneCell == [k |-> "None", q |-> QInt(0)]

sensitivity_cell(t, growth_rate, discount_rate) ==
  LET dcf_result == calculate_dcf(t, growth_rate, discount_rate)
  IN  IF "dcf_value_per_share" \in DOMAIN dcf_result
        THEN dcf_result.dcf_value_per_share
        ELSE NoneCell

calculate_sensitivity_analysis(t) ==
  [sensitivity_matrix |-> [g \in Range(growth_rates) |->
                             [d \in Range(discount_rates) |-> sensitivity_cell(t, g, d)]],
   growth_rates       |-> growth_rates,
   discount_rates     |-> discount_rates]

(***************************************************************************)
(* ValuationCalculator._get_peer_companies                                 *)
(***************************************************************************)
Peer(symbol, name) == [symbol |-> symbol, name |-> name]

peer_map ==
  [sector \in {"Technology", "Healthcare", "Financial Services"} |->
     IF sector = "Technology"
       THEN <<Peer("AAPL", "Apple Inc."), Peer("MSFT", "Microsoft Corporation"),
              Peer("GOOGL", "Alphabet Inc."), Peer("AMZN", "Amazon.com Inc."),
              Peer("META", "Meta Platforms Inc.")>>
     ELSE IF sector = "Healthcare"
       THEN <<Peer("JNJ", "Johnson & Johnson"), Peer("PFE", "Pfizer Inc."),
              Peer("UNH", "UnitedHealth Group Inc."), Peer("ABBV", "AbbVie Inc."),
              Peer("TMO", "Thermo Fisher Scientific Inc.")>>
     ELSE <<Peer("JPM", "JPMorgan Chase & Co."), Peer("BAC", "Bank of America Corp."),
            Peer("WFC", "Wells Fargo & Co."), Peer("GS", "Goldman Sachs Group Inc."),
            Peer("MS", "Morgan Stanley")>>]

_get_peer_companies(sector) ==
  IF sector \in DOMAIN peer_map THEN peer_map[sector] ELSE <<>>

(***************************************************************************)
(* ValuationCalculator._calculate_percentiles                              *)
(***************************************************************************)
MetricNames == <<"pe_ratio", "pb_ratio", "ps_ratio", "ev_ebitda", "roe", "roa">>
Metrics == Range(MetricNames)

\* the info key each metric is read from (lines 238-243, 258-263)
InfoKey ==
  [m \in Metrics |->
     IF m = "pe_ratio" THEN "trailingPE"
     ELSE IF m = "pb_ratio" THEN "priceToBook"
     ELSE IF m = "ps_ratio" THEN "priceToSalesTrailing12Months"
     ELSE IF m = "ev_ebitda" THEN "enterpriseToEbitda"
     ELSE IF m = "roe" THEN "returnOnEquity"
     ELSE "returnOnAssets"]

\* a peer counted only when every one of its metrics is usable
peer_counts_all(peer, metric) ==
  \A m \in Metrics : peer[m] # PyNone /\ peer[m].v > 0

\* peer.get(metric) is not None and peer[metric] > 0
peer_counts(peer, metric) == peer[metric] # PyNone /\ peer[metric].v > 0

\* [peer[metric] for peer in peer_metrics if ...]
RECURSIVE peer_values_of(_, _)
peer_values_of(peer_metrics, metric) ==
  IF peer_metrics = <<>> THEN <<>>
  ELSE (IF peer_counts(Head(peer_metrics), metric)
          THEN <<Head(peer_metrics)[metric].v>> ELSE <<>>)
       \o peer_values_of(Tail(peer_metrics), metric)

\* list.sort(): ascending
RECURSIVE Insert(_, _)
Insert(sorted, v) ==
  IF sorted = <<>> THEN <<v>>
  ELSE IF v < Head(sorted) THEN <<v>> \o sorted
  ELSE <<Head(sorted)>> \o Insert(Tail(sorted), v)

RECURSIVE Sort(_)
Sort(values) ==
  IF values = <<>> THEN <<>> ELSE Insert(Sort(Tail(values)), Head(values))

\* the zero-based position of the last element equal to v
RECURSIVE Index_last(_, _)
Index_last(values, v) ==
  IF values[Len(values)] = v THEN Len(values) - 1
  ELSE Index_last(SubSeq(values, 1, Len(values) - 1), v)

\* list.index(v): the zero-based position of the first element equal to v
RECURSIVE Index(_, _)
Index(values, v) == IF Head(values) = v THEN 0 ELSE 1 + Index(Tail(values), v)

\* the position taken in the list as it was collected, without the sort
percentile_of_unsorted(peer_values, company_value) ==
  LET population == Append(peer_values, company_value)
  IN  QMul(QRat(Index(population, company_value), Len(population)), QInt(100))

\* the position taken over the number of peer values, the subject not counted
percentile_of_among_peers(peer_values, company_value) ==
  LET population == Sort(Append(peer_values, company_value))
  IN  QMul(QRat(Index(population, company_value), Len(peer_values)), QInt(100))

\* (peer_values.index(company_value) / len(peer_values)) * 100
percentile_of(peer_values, company_value) ==
  LET population == Sort(Append(peer_values, company_value))
  IN  QMul(QRat(Index(population, company_value), Len(population)), QInt(100))

\* every metric of the subject gets an entry: 0 where no peer value is usable
_calculate_percentiles_zero(company_metrics, peer_metrics) ==
  [metric \in {m \in Metrics : /\ m \in DOMAIN company_metrics
                               /\ company_metrics[m] # PyNone} |->
     IF peer_values_of(peer_metrics, metric) = <<>> THEN QInt(0)
     ELSE percentile_of(peer_values_of(peer_metrics, metric), company_metrics[metric].v)]

_calculate_percentiles(company_metrics, peer_metrics) ==
  [metric \in {m \in Metrics : /\ m \in DOMAIN company_metrics
                               /\ company_metrics[m] # PyNone
                               /\ peer_values_of(peer_metrics, m) # <<>>} |->
     percentile_of(peer_values_of(peer_metrics, metric), company_metrics[metric].v)]

(***************************************************************************)
(* ValuationCalculator.compare_with_peers                                  *)
(***************************************************************************)
metrics_of(info) == [m \in Metrics |-> Get(info, InfoKey[m], 0)]

peer_record(peer, info) ==
  [key \in {"symbol", "name"} \cup Metrics |->
     IF key = "symbol" THEN peer.symbol
     ELSE IF key = "name" THEN peer.name
     ELSE Get(info, InfoKey[key], 0)]

\* the loop given up at the first peer whose data cannot be fetched
RECURSIVE peer_comparison_of_aborting(_, _)
peer_comparison_of_aborting(peer_list, fetched) ==
  IF peer_list = <<>> THEN <<>>
  ELSE IF fetched[Head(peer_list).symbol].ok
    THEN <<peer_record(Head(peer_list), fetched[Head(peer_list).symbol].info)>>
           \o peer_comparison_of_aborting(Tail(peer_list), fetched)
  ELSE <<>>

\* the loop over the peers: a peer whose data cannot be fetched is skipped
RECURSIVE peer_comparison_of(_, _)
peer_comparison_of(peer_list, fetched) ==
  IF peer_list = <<>> THEN <<>>
  ELSE (IF fetched[Head(peer_list).symbol].ok
          THEN <<peer_record(Head(peer_list), fetched[Head(peer_list).symbol].info)>>
          ELSE <<>>)
       \o peer_comparison_of(Tail(peer_list), fetched)

compare_with_peers(t, fetched) ==
  IF ~t.ok THEN [error |-> "Peer comparison failed"]
  ELSE LET company_metrics == metrics_of(t.info)
           peer_comparison == peer_comparison_of(_get_peer_companies(t.sector), fetched)
       IN  [company_metrics      |-> company_metrics,
            peer_comparison      |-> peer_comparison,
            valuation_percentile |->
              IF peer_comparison # <<>>
                THEN _calculate_percentiles(company_metrics, peer_comparison)
                ELSE <<>>]

(***************************************************************************)
(* One fetch of the subject's data: each method opens its own              *)
(* yf.Ticker(symbol), and the provider may fail at any one of them.        *)
(***************************************************************************)
Fetch(t, up) == [t EXCEPT !.ok = t.ok /\ up]

(***************************************************************************)
(* ValuationCalculator.calculate_fair_value_range                          *)
(***************************************************************************)
\* a < b on floats; every comparison with nan is false
FLt(a, b) ==
  /\ a.k # "nan" /\ b.k # "nan"
  /\ IF a.k = "inf" THEN a.q.s < 0 /\ ~(b.k = "inf" /\ b.q.s < 0)
     ELSE IF b.k = "inf" THEN b.q.s > 0
     ELSE QLt(a.q, b.q)

\* min(valuations): the first element no later one is smaller than
RECURSIVE min_from(_, _)
min_from(values, least) ==
  IF values = <<>> THEN least
  ELSE min_from(Tail(values), IF FLt(Head(values), least) THEN Head(values) ELSE least)

min_value_of(valuations) == min_from(Tail(valuations), Head(valuations))

\* max(valuations)
RECURSIVE max_from(_, _)
max_from(values, most) ==
  IF values = <<>> THEN most
  ELSE max_from(Tail(values), IF FLt(most, Head(values)) THEN Head(values) ELSE most)

max_value_of(valuations) == max_from(Tail(valuations), Head(valuations))

\* sum(valuations)
RECURSIVE sum_of(_)
sum_of(values) ==
  IF values = <<>> THEN FInt(0)
  ELSE FAdd(sum_of(SubSeq(values, 1, Len(values) - 1)), values[Len(values)])

\* the sum over one more than the number of estimates
avg_value_of_skewed(valuations) == FDiv(sum_of(valuations), FInt(Len(valuations) + 1))

\* sum(valuations) / len(valuations)
avg_value_of(valuations) == FDiv(sum_of(valuations), FInt(Len(valuations)))

\* 'High' from the first estimate on
confidence_level_of_any(methods) == IF methods >= 1 THEN "High" ELSE "Medium"

\* 'High' if len(valuations) >= 3 else 'Medium'
confidence_level_of(methods) == IF methods >= 3 THEN "High" ELSE "Medium"

\* peer.get('pe_ratio') and peer['pe_ratio'] > 0
RECURSIVE peer_pe_ratios_of(_)
peer_pe_ratios_of(peer_comparison) ==
  IF peer_comparison = <<>> THEN <<>>
  ELSE (IF /\ Head(peer_comparison)["pe_ratio"] # PyNone
           /\ Head(peer_comparison)["pe_ratio"].v > 0
          THEN <<FInt(Head(peer_comparison)["pe_ratio"].v)>> ELSE <<>>)
       \o peer_pe_ratios_of(Tail(peer_comparison))

\* the average peer P/E taken as a second estimate
valuations_of_with_multiple(dcf_result, peer_result) ==
  LET peer_pe_ratios == IF "peer_comparison" \in DOMAIN peer_result
                          THEN peer_pe_ratios_of(peer_result.peer_comparison)
                          ELSE <<>>
  IN  (IF "dcf_value_per_share" \in DOMAIN dcf_result
         THEN <<dcf_result.dcf_value_per_share>>
         ELSE <<>>)
      \o (IF peer_pe_ratios # <<>> THEN <<avg_value_of(peer_pe_ratios)>> ELSE <<>>)

\* the estimates collected from the two results: the DCF value per share;
\* the average peer P/E is computed but yields no estimate (line 392)
valuations_of(dcf_result, peer_result) ==
  LET peer_pe_ratios == IF "peer_comparison" \in DOMAIN peer_result
                          THEN peer_pe_ratios_of(peer_result.peer_comparison)
                          ELSE <<>>
      avg_pe == IF peer_pe_ratios # <<>> THEN avg_value_of(peer_pe_ratios) ELSE FNaN
  IN  IF "dcf_value_per_share" \in DOMAIN dcf_result
        THEN <<dcf_result.dcf_value_per_share>>
        ELSE <<>>

\* a range of zeros where there is no estimate
fair_value_of_zeroed(valuations) ==
  [fair_value_range  |-> [minimum |-> FInt(0), maximum |-> FInt(0), average |-> FInt(0)],
   valuation_methods |-> Len(valuations),
   confidence_level  |-> confidence_level_of(Len(valuations))]

fair_value_of(valuations) ==
  IF valuations # <<>>
    THEN [fair_value_range  |-> [minimum |-> min_value_of(valuations),
                                 maximum |-> max_value_of(valuations),
                                 average |-> avg_value_of(valuations)],
          valuation_methods |-> Len(valuations),
          confidence_level  |-> confidence_level_of(Len(valuations))]
    ELSE [error |-> "Insufficient data for fair value calculation"]

\* fetch.dcf, fetch.peers: whether the provider answers the fetch of the subject
\* that calculate_dcf and compare_with_peers each make
calculate_fair_value_range(t, fetch, fetched) ==
  LET dcf_result  == calculate_dcf(Fetch(t, fetch.dcf), DefaultGrowthRate, DefaultDiscountRate)
      peer_result == compare_with_peers(Fetch(t, fetch.peers), fetched)
  IN  fair_value_of(valuations_of(dcf_result, peer_result))

(***************************************************************************)
(* CompanyAnalyzer.get_financial_data, as far as the valuations read it    *)
(***************************************************************************)
\* df.loc[metric].head(years).tolist(), each value as a float
_get_historical_metric(df, metric, years) ==
  IF FrameEmpty(df) \/ metric \notin DOMAIN df THEN <<>>
  ELSE [i \in 1..(IF Len(df[metric]) < years THEN Len(df[metric]) ELSE years) |->
          FInt(df[metric][i])]

\* {} when the fetch fails
get_financial_data(t) ==
  IF ~t.ok THEN <<>>
  ELSE [historical_data |->
          [cash_flow_5y |-> _get_historical_metric(t.cashflow, "Operating Cash Flow", 5)]]

(***************************************************************************)
(* ValuationCalculator.calculate_valuations                                *)
(***************************************************************************)
_calculate_dcf_basic(financial_data) ==
  LET historical_cf == IF "historical_data" \in DOMAIN financial_data
                         THEN financial_data.historical_data.cash_flow_5y
                         ELSE <<>>
      fcf              == historical_cf[1]
      growth_rate      == Rate(5)
      discount_rate    == Rate(10)
      terminal_value   == FDiv(FMul(fcf, FAdd(FInt(1), growth_rate)),
                               FSub(discount_rate, growth_rate))
      pv_fcf           == FMul(fcf, FInt(5))
      enterprise_value == FAdd(pv_fcf, FDiv(terminal_value,
                                            FPow(FAdd(FInt(1), discount_rate), 5)))
  IN  IF historical_cf = <<>> THEN [error |-> "Insufficient cash flow data"]
      ELSE [dcf_value      |-> enterprise_value,
            free_cash_flow |-> fcf,
            terminal_value |-> terminal_value,
            growth_rate    |-> growth_rate,
            discount_rate  |-> discount_rate]

\* the placeholder sections; peg_ratio and return_on_invested_capital, which
\* read the income statement and the profitability figures, are not carried
calculate_valuations(financial_data) ==
  [dcf_valuation           |-> _calculate_dcf_basic(financial_data),
   relative_valuations     |-> [pe_ratio |-> FInt(15), pb_ratio |-> FInt(2),
                                ev_ebitda |-> FInt(12)],
   asset_based_valuation   |-> [book_value |-> FInt(0), tangible_book_value |-> FInt(0),
                                liquidation_value |-> FInt(0),
                                replacement_cost |-> FInt(0)],
   dividend_discount_model |-> [dividend_yield |-> Rate(2), dividend_growth_rate |-> Rate(3),
                                ddm_value |-> FInt(0)],
   valuation_ratios        |-> [price_to_earnings |-> FInt(15), price_to_book |-> FInt(2),
                                price_to_sales |-> FInt(3),
                                price_to_cash_flow |-> FInt(10),
                                enterprise_value_to_ebitda |-> FInt(12),
                                economic_value_added |-> FInt(0)]]

(***************************************************************************)
(* analyze_company: the valuations of the analysis (app.py lines 75-83)    *)
(***************************************************************************)
\* the two results under the keys the analysis adds
detailed_of(dcf_result, peer_comparison) ==
  [dcf_detailed |-> dcf_result, peer_comparison |-> peer_comparison]

\* the peer comparison given up when the DCF failed
analyze_valuations_chained(t, fetch, fetched) ==
  LET dcf_result == calculate_dcf(Fetch(t, fetch.dcf), DefaultGrowthRate, DefaultDiscountRate)
  IN  calculate_valuations(get_financial_data(t))
        @@ detailed_of(dcf_result,
                       IF "error" \in DOMAIN dcf_result
                         THEN [error |-> "Peer comparison failed"]
                         ELSE compare_with_peers(Fetch(t, fetch.peers), fetched))

analyze_valuations(t, fetch, fetched) ==
  calculate_valuations(get_financial_data(t))
    @@ detailed_of(calculate_dcf(Fetch(t, fetch.dcf), DefaultGrowthRate, DefaultDiscountRate),
                   compare_with_peers(Fetch(t, fetch.peers), fetched))

(***************************************************************************)
(* MarketDataService._calculate_technical_indicators.  hist['Close'] is    *)
(* the sequence of closes, oldest first, in whole currency units; << >>    *)
(* is the empty frame.  A rolling value is taken at the last bar.  The     *)
(* standard deviation is kept by its square, so a Bollinger band is the    *)
(* number  q + c * sqrt(r).                                                *)
(***************************************************************************)
\* the last window values
Window(values, window) == SubSeq(values, Len(values) - window + 1, Len(values))

\* Series.rolling(window).mean().iloc[-1]: nan until the window is full
rolling_mean(values, window) ==
  IF Len(values) < window THEN FNaN
  ELSE Fin(QRat(Sum(Window(values, window)), window))

\* the square of the deviation taken over the whole window
rolling_var_population(values, window) ==
  IF Len(values) < window THEN FNaN
  ELSE LET w == Window(values, window)
       IN  Fin(QRat(window * Sum([i \in DOMAIN w |-> w[i] * w[i]]) - Sum(w) * Sum(w),
                    window * window))

\* the square of Series.rolling(window).std().iloc[-1] (one degree of freedom
\* less than the window)
rolling_var(values, window) ==
  IF Len(values) < window THEN FNaN
  ELSE LET w == Window(values, window)
       IN  Fin(QRat(window * Sum([i \in DOMAIN w |-> w[i] * w[i]]) - Sum(w) * Sum(w),
                    window * (window - 1)))

\* close_prices.diff(): no value at the first bar
delta_of(closes, i) == IF i = 1 THEN FNaN ELSE FInt(closes[i] - closes[i - 1])

\* delta.where(delta > 0, 0): 0 where the condition is false, nan included
gain_of(closes) ==
  [i \in DOMAIN closes |->
     IF FPositive(delta_of(closes, i)) THEN closes[i] - closes[i - 1] ELSE 0]

\* -delta.where(delta < 0, 0)
loss_of(closes) ==
  [i \in DOMAIN closes |->
     IF FPositive(FNeg(delta_of(closes, i))) THEN closes[i - 1] - closes[i] ELSE 0]

RsiWindow == 14

\* the ratio of gains to losses scaled to a percentage
rsi_of_unbounded(closes) ==
  FMul(FInt(100), FDiv(rolling_mean(gain_of(closes), RsiWindow),
                       rolling_mean(loss_of(closes), RsiWindow)))

\* 100 - (100 / (1 + rs)) with rs = gain / loss, by numpy's division (a zero
\* average loss gives rs = inf or, with a zero average gain, nan)
rsi_of(closes) ==
  LET gain == rolling_mean(gain_of(closes), RsiWindow)
      loss == rolling_mean(loss_of(closes), RsiWindow)
      rs   == FDiv(gain, loss)
  IN  FSub(FInt(100), FDiv(FInt(100), FAdd(FInt(1), rs)))

RECURSIVE QSum(_)
QSum(terms) ==
  IF terms = <<>> THEN QInt(0)
  ELSE IF Len(terms) = 1 THEN terms[1]
  ELSE LET mid == Len(terms) \div 2
       IN  QAdd(QSum(SubSeq(terms, 1, mid)), QSum(SubSeq(terms, mid + 1, Len(terms))))

\* the weight bar i has in the average at bar t: (1 - alpha)^(t - i) with
\* alpha = 2 / (span + 1), scaled by (span + 1)^(t - 1)
ewm_weight(span, t, i) ==
  QMake(1, NMul(NPow(NFromInt(span - 1), t - i), NPow(NFromInt(span + 1), i - 1)), <<1>>)

\* Series.ewm(span).mean() (adjust=True): at each bar the weighted average of
\* the values up to it
ewm_mean(values, span) ==
  LET mean(t, weights) ==
        QDiv(QSum(Series(t, [i \in 1..t |-> QMul(weights[i], values[i])])), QSum(weights))
  IN  Series(Len(values), [t \in 1..Len(values) |->
        mean(t, Series(t, [i \in 1..t |-> ewm_weight(span, t, i)]))])

\* ema_12 - ema_26, bar by bar
macd_of(closes) ==
  LET n      == Len(closes)
      prices == Series(n, [i \in 1..n |-> QInt(closes[i])])
      ema_12 == ewm_mean(prices, 12)
      ema_26 == ewm_mean(prices, 26)
  IN  Series(n, [t \in 1..n |-> QSub(ema_12[t], ema_26[t])])

\* macd.ewm(span=9).mean()
signal_of(macd) == ewm_mean(macd, 9)

BollingerWindow == 20

\* bb_middle + c * bb_std: the number q + c * sqrt(r)
band_of(closes, c) ==
  LET bb_middle == rolling_mean(closes, BollingerWindow)
      bb_var    == rolling_var(closes, BollingerWindow)
  IN  IF bb_middle.k = "nan" THEN FNaN
      ELSE [k |-> "fin", q |-> bb_middle.q, c |-> c, r |-> bb_var.q]

\* price > band, price < band, decided on the squares; false for nan
above_band(price, band) ==
  /\ band.k = "fin"
  /\ LET above(d, cmp) == IF band.c > 0 THEN d.s > 0 /\ cmp < 0 ELSE d.s > 0 \/ cmp > 0
         squares(d)    == above(d, QCmp(QMul(QInt(band.c * band.c), band.r), QMul(d, d)))
     IN  squares(QSub(QInt(price), band.q))

below_band(price, band) ==
  /\ band.k = "fin"
  /\ LET below(d, cmp) == IF band.c > 0 THEN d.s < 0 \/ cmp > 0 ELSE d.s < 0 /\ cmp < 0
         squares(d)    == below(d, QCmp(QMul(QInt(band.c * band.c), band.r), QMul(d, d)))
     IN  squares(QSub(QInt(price), band.q))

\* the value passed on whatever it is
not_na_raw(x, fallback) == x

\* float(x) if not pd.isna(x) else fallback
not_na(x, fallback) == IF x.k = "nan" THEN FInt(fallback) ELSE x

\* the value at the last bar
last_of(series) == Fin(series[Len(series)])

\* every series is computed once and handed on to the section that reads it
_calculate_technical_indicators(closes) ==
  IF closes = <<>> THEN <<>>
  ELSE
    LET current_price  == closes[Len(closes)]
        price_vs(sma)  == IF FLt(sma, FInt(current_price)) THEN "Above" ELSE "Below"
        moving_averages(sma_20, sma_50, sma_200) ==
          [sma_20  |-> not_na(sma_20, 0),
           sma_50  |-> not_na(sma_50, 0),
           sma_200 |-> not_na(sma_200, 0),
           price_vs_sma_20  |-> price_vs(sma_20),
           price_vs_sma_50  |-> price_vs(sma_50),
           price_vs_sma_200 |-> price_vs(sma_200)]
        rsi(current_rsi) ==
          [value |-> not_na(current_rsi, 50),
           interpretation |-> IF FLt(FInt(70), current_rsi) THEN "Overbought"
                              ELSE IF FLt(current_rsi, FInt(30)) THEN "Oversold"
                              ELSE "Neutral"]
        macd_signal(current_macd, current_signal) ==
          [value  |-> not_na(current_macd, 0),
           signal |-> not_na(current_signal, 0),
           interpretation |-> IF FLt(current_signal, current_macd) THEN "Bullish"
                              ELSE "Bearish"]
        macd(series) == macd_signal(last_of(series), last_of(signal_of(series)))
        bollinger_bands(current_bb_upper, current_bb_lower) ==
          [upper |-> not_na(current_bb_upper, 0),
           lower |-> not_na(current_bb_lower, 0),
           position |-> IF above_band(current_price, current_bb_upper) THEN "Upper"
                        ELSE IF below_band(current_price, current_bb_lower) THEN "Lower"
                        ELSE "Middle"]
    IN  [moving_averages |-> moving_averages(rolling_mean(closes, 20),
                                             rolling_mean(closes, 50),
                                             rolling_mean(closes, 200)),
         rsi             |-> rsi(rsi_of(closes)),
         macd            |-> macd(macd_of(closes)),
         bollinger_bands |-> bollinger_bands(band_of(closes, 2), band_of(closes, -2))]

(***************************************************************************)
(* The data the provider may hold for the subject symbol.                  *)
(***************************************************************************)
NumPeriods == 2

\* a row of NumPeriods values: the most recent first, then older ones
Row(recent) == [i \in 1..NumPeriods |-> IF i = 1 THEN recent ELSE 7 * i]

NoRow == <<>>
OperatingCashFlows == {NoRow} \cup {Row(v) : v \in {30, 100, 130}}
CapitalExpenditures == {NoRow} \cup {Row(v) : v \in {-30, 30}}

CashFlowFrame(ocf, capex) ==
  [l \in {"Net Income"}
         \cup (IF ocf = NoRow THEN {} ELSE {"Operating Cash Flow"})
         \cup (IF capex = NoRow THEN {} ELSE {"Capital Expenditure"}) |->
     IF l = "Operating Cash Flow" THEN ocf
     ELSE IF l = "Capital Expenditure" THEN capex
     ELSE Row(50)]

EmptyFrame == [l \in {} |-> NoRow]

CashFlowFrames ==
  {EmptyFrame} \cup {CashFlowFrame(o, c) : o \in OperatingCashFlows, c \in CapitalExpenditures}

BalanceSheetFrame(debt, cash) ==
  [l \in {"Total Assets"}
         \cup (IF debt = NoRow THEN {} ELSE {"Total Debt"})
         \cup (IF cash = NoRow THEN {} ELSE {"Cash"}) |->
     IF l = "Total Debt" THEN debt
     ELSE IF l = "Cash" THEN cash
     ELSE Row(900)]

BalanceSheetFrames ==
  {EmptyFrame, BalanceSheetFrame(Row(40), NoRow), BalanceSheetFrame(Row(40), Row(10))}

\* an info dict: the keys whose value is not Absent
Absent == [t |-> "absent", v |-> 0]

Dict(keys, value(_)) == [key \in {k \in keys : value(k) # Absent} |-> value(key)]

\* pe, pb, ps, ev, roe, roa: the six metric values of an info dict
MetricValue(six, key) ==
  IF key = "trailingPE" THEN six[1]
  ELSE IF key = "priceToBook" THEN six[2]
  ELSE IF key = "priceToSalesTrailing12Months" THEN six[3]
  ELSE IF key = "enterpriseToEbitda" THEN six[4]
  ELSE IF key = "returnOnEquity" THEN six[5]
  ELSE IF key = "returnOnAssets" THEN six[6]
  ELSE Absent

InfoKeys == {"marketCap", "sharesOutstanding", "regularMarketPrice"} \cup Range(InfoKey)

Info(shares, price, six) ==
  LET value(key) == IF key = "marketCap" THEN PyNum(1000)
                    ELSE IF key = "sharesOutstanding" THEN shares
                    ELSE IF key = "regularMarketPrice" THEN price
                    ELSE MetricValue(six, key)
  IN  Dict(InfoKeys, value)

SharesValues == {Absent, PyNone, PyNum(0), PyNum(-5), PyNum(10)}
PriceValues  == {Absent, PyNum(0), PyNum(-20), PyNum(20)}

SubjectSix == <<PyNum(10), PyNum(3), PyNum(4), PyNum(12), PyNum(2), PyNum(1)>>
NoSix      == <<Absent, Absent, Absent, Absent, Absent, Absent>>

\* the subject with its statements varied and its multiples fixed
Tickers ==
  {[symbol |-> "ORCL", ok |-> TRUE, sector |-> "Technology", cashflow |-> cf,
    balance_sheet |-> bs, info |-> Info(sh, pr, SubjectSix)] :
      cf \in CashFlowFrames, bs \in BalanceSheetFrames,
      sh \in SharesValues, pr \in PriceValues}
  \cup {[symbol |-> "ORCL", ok |-> FALSE, sector |-> "Unknown", cashflow |-> EmptyFrame,
         balance_sheet |-> EmptyFrame, info |-> Info(Absent, Absent, NoSix)]}

(***************************************************************************)
(* The data the provider may hold for the peers: for each peer symbol,     *)
(* whether the fetch succeeds and the info dict it yields.                 *)
(***************************************************************************)
Fetched(six) == [ok |-> TRUE,  info |-> Info(PyNum(10), PyNum(20), six)]
FetchFails   == [ok |-> FALSE, info |-> Info(Absent, Absent, NoSix)]

PeerA == Fetched(<<PyNum(5),  PyNum(2), PyNum(4), PyNum(10), PyNum(1),  PyNum(1)>>)
PeerB == Fetched(<<PyNum(15), PyNone,   Absent,   PyNum(12), PyNum(-3), PyNum(0)>>)
PeerC == Fetched(<<PyNum(20), PyNum(4), PyNum(6), PyNum(14), PyNum(3),  PyNum(2)>>)
PeerD == Fetched(<<PyNum(10), PyNum(3), PyNum(4), PyNum(12), PyNum(2),  PyNum(1)>>)
PeerE == Fetched(<<Absent,    PyNum(5), PyNone,   PyNum(-1), Absent,    PyNone>>)

LeadPeerData  == {PeerA, PeerB, PeerC, PeerD, PeerE, FetchFails}
OtherPeerData == {PeerC, PeerE, FetchFails}

Symbols(sector) == {_get_peer_companies(sector)[i].symbol :
                      i \in DOMAIN _get_peer_companies(sector)}

\* the peers of a sector: the first three of its list vary most
PeerData(sector) ==
  LET list == _get_peer_companies(sector)
      lead == {list[i].symbol : i \in DOMAIN list \cap 1..3}
  IN  {f \in [Symbols(sector) -> LeadPeerData] :
         \A sym \in Symbols(sector) \ lead : f[sym] \in OtherPeerData}

FixedPeerData == [sym \in Symbols("Technology") |->
                    IF sym = "AAPL" THEN PeerA
                    ELSE IF sym = "MSFT" THEN PeerB
                    ELSE IF sym = "GOOGL" THEN PeerC
                    ELSE IF sym = "AMZN" THEN FetchFails
                    ELSE PeerE]

\* the subject with its multiples varied and no cash-flow statement
SubjectSixes ==
  {SubjectSix,
   <<PyNone, Absent, PyNum(4), PyNum(-1), PyNum(0), PyNum(3)>>,
   <<PyNum(25), PyNum(1), PyNum(9), PyNum(14), PyNum(2), PyNum(2)>>}

PeerSubjects ==
  {[symbol |-> "ORCL", ok |-> TRUE, sector |-> sec, cashflow |-> EmptyFrame,
    balance_sheet |-> EmptyFrame, info |-> Info(PyNum(10), PyNum(20), six)] :
      sec \in {"Technology", "Unknown"}, six \in SubjectSixes}
  \cup {[symbol |-> "ORCL", ok |-> FALSE, sector |-> "Unknown", cashflow |-> EmptyFrame,
         balance_sheet |-> EmptyFrame, info |-> Info(Absent, Absent, NoSix)]}

(***************************************************************************)
(* The price histories the provider may hold: none, or up to MaxBars       *)
(* closes that stay level, rise or fall bar by bar, repeat a short cycle,   *)
(* or stay level and jump at the last bar.                                 *)
(***************************************************************************)
MaxBars == 21

BarCounts == {1, 2, 13, 14, 15} \cup 19..MaxBars

Cycles == {<<5>>, <<0>>, <<1, 2>>, <<2, 1>>, <<1, 4>>, <<1, 2, 4>>, <<4, 2, 1>>,
           <<1, 1, 4>>, <<4, 4, 1>>}

Cyclic(cycle, bars) == [i \in 1..bars |-> cycle[((i - 1) % Len(cycle)) + 1]]
Rising(bars)  == [i \in 1..bars |-> i]
Falling(bars) == [i \in 1..bars |-> bars + 1 - i]
Jumping(bars, close) == [i \in 1..bars |-> IF i = bars THEN close ELSE 5]

Histories ==
  {<<>>} \cup {Cyclic(cycle, bars) : cycle \in Cycles, bars \in BarCounts}
         \cup {Rising(bars) : bars \in BarCounts}
         \cup {Falling(bars) : bars \in BarCounts}
         \cup {Jumping(bars, close) : bars \in BarCounts, close \in {1, 9}}

FixedHistory == Cyclic(<<1, 2, 4>>, 3)

\* a subject without statements, for the runs over the price histories
FixedTicker ==
  [symbol |-> "ORCL", ok |-> TRUE, sector |-> "Technology", cashflow |-> EmptyFrame,
   balance_sheet |-> EmptyFrame, info |-> Info(PyNum(10), PyNum(20), SubjectSix)]

\* the rates a caller passes to calculate_dcf, in percent
CallRates == {DefaultGrowthRate, 8, DefaultDiscountRate}

NoCall == [op |-> "none", growth_rate |-> 0, discount_rate |-> 0, result |-> <<>>]

\* the threads of the server, none of them serving a request
NumThreads == 2
Threads == 1..NumThreads
Idle == [pc |-> "idle", op |-> "none", result |-> <<>>]
NoThreads ==
  /\ calls = [th \in Threads |-> Idle]
  /\ locals = [th \in Threads |-> <<>>]

Init ==
  /\ ticker \in Tickers
  /\ peers = FixedPeerData
  /\ hist = FixedHistory
  /\ last = NoCall
  /\ NoThreads

\* the subject that is on the peer list of its own sector: the provider gives
\* the same info for it as the subject and as a peer
OwnPeer(fetched) ==
  [symbol |-> "AAPL", ok |-> TRUE, sector |-> "Technology", cashflow |-> EmptyFrame,
   balance_sheet |-> EmptyFrame, info |-> fetched["AAPL"].info]

InitPeers ==
  /\ \/ /\ ticker \in PeerSubjects
        /\ peers \in PeerData(ticker.sector)
     \/ /\ peers \in PeerData("Technology")
        /\ peers["AAPL"].ok
        /\ ticker = OwnPeer(peers)
  /\ hist = FixedHistory
  /\ last = NoCall
  /\ NoThreads

InitMarket ==
  /\ ticker = FixedTicker
  /\ peers = FixedPeerData
  /\ hist \in Histories
  /\ last = NoCall
  /\ NoThreads

CalculateDcf ==
  \E g \in CallRates, d \in CallRates :
    /\ last = NoCall
    /\ last' = [op |-> "calculate_dcf", growth_rate |-> g, discount_rate |-> d,
                result |-> calculate_dcf(ticker, g, d)]
    /\ UNCHANGED <<ticker, peers, hist, calls, locals>>

CalculateSensitivityAnalysis ==
  /\ last = NoCall
  /\ last' = [op |-> "calculate_sensitivity_analysis", growth_rate |-> 0,
              discount_rate |-> 0, result |-> calculate_sensitivity_analysis(ticker)]
  /\ UNCHANGED <<ticker, peers, hist, calls, locals>>

CompareWithPeers ==
  /\ last = NoCall
  /\ last' = [op |-> "compare_with_peers", growth_rate |-> 0, discount_rate |-> 0,
              result |-> compare_with_peers(ticker, peers)]
  /\ UNCHANGED <<ticker, peers, hist, calls, locals>>

\* the outcomes of the fetches of the subject a call makes
Fetches == [dcf : BOOLEAN, peers : BOOLEAN]

CalculateFairValueRange ==
  \E fetch \in Fetches :
    /\ last = NoCall
    /\ last' = [op |-> "calculate_fair_value_range", growth_rate |-> DefaultGrowthRate,
                discount_rate |-> DefaultDiscountRate, fetch |-> fetch,
                result |-> calculate_fair_value_range(ticker, fetch, peers)]
    /\ UNCHANGED <<ticker, peers, hist, calls, locals>>

AnalyzeCompany ==
  \E fetch \in Fetches :
    /\ last = NoCall
    /\ last' = [op |-> "analyze_company", growth_rate |-> DefaultGrowthRate,
                discount_rate |-> DefaultDiscountRate, fetch |-> fetch,
                result |-> analyze_valuations(ticker, fetch, peers)]
    /\ UNCHANGED <<ticker, peers, hist, calls, locals>>

CalculateTechnicalIndicators ==
  /\ last = NoCall
  /\ last' = [op |-> "calculate_technical_indicators", growth_rate |-> 0,
              discount_rate |-> 0, result |-> _calculate_technical_indicators(hist)]
  /\ UNCHANGED <<ticker, peers, hist, calls, locals>>

\* the result is handed to the caller; the service keeps nothing of the call
Return ==
  /\ last # NoCall
  /\ last' = NoCall
  /\ UNCHANGED <<ticker, peers, hist, calls, locals>>

Next ==
  \/ CalculateDcf
  \/ CalculateSensitivityAnalysis
  \/ CompareWithPeers
  \/ CalculateFairValueRange
  \/ AnalyzeCompany
  \/ CalculateTechnicalIndicators
  \/ Return

\* the subject's statements vary, the peers are fixed
Spec == Init /\ [][Next]_vars

\* the subject's and the peers' multiples vary
SpecPeers == InitPeers /\ [][Next]_vars

\* the price history varies
SpecMarket == InitMarket /\ [][Next]_vars

(***************************************************************************)
(* The threaded server (run.py: threaded=True): every request is served by *)
(* a thread of its own, and all of them call the module-level service      *)
(* instances of app.py.  A call asks the provider for its symbol, keeps    *)
(* what it gets in local variables and computes its result from them; the  *)
(* attributes of the instances are set in __init__ and never written       *)
(* again.  Each thread asks for a symbol of its own.                       *)
(***************************************************************************)
\* a company with statements of its own, for the symbol thread th asks for
ClientTicker(th) ==
  IF th = 1 THEN ticker
  ELSE [symbol |-> IF th = 2 THEN "IBM" ELSE "SAP", ok |-> TRUE, sector |-> "Technology",
        cashflow |-> CashFlowFrame(Row(100 + 30 * th), Row(-30)),
        balance_sheet |-> BalanceSheetFrame(Row(40), Row(10)),
        info |-> Info(PyNum(10 + th), PyNum(20),
                      <<PyNum(25), PyNum(1), PyNum(9), PyNum(14), PyNum(2), PyNum(2)>>)]

\* a short history of its own
ClientHistory(th) == IF th = 1 THEN hist ELSE Rising(th + 1)

\* what the call of thread th gets from the provider
fetched_for(th) ==
  [ticker |-> ClientTicker(th), peers |-> peers, hist |-> ClientHistory(th)]

CoreOps == {"calculate_dcf", "compare_with_peers", "calculate_fair_value_range",
            "calculate_technical_indicators"}

\* what a core computation returns from the data the call holds
result_of(op, data) ==
  IF op = "calculate_dcf"
    THEN calculate_dcf(data.ticker, DefaultGrowthRate, DefaultDiscountRate)
  ELSE IF op = "compare_with_peers"
    THEN compare_with_peers(data.ticker, data.peers)
  ELSE IF op = "calculate_fair_value_range"
    THEN calculate_fair_value_range(data.ticker, [dcf |-> TRUE, peers |-> TRUE],
                                    data.peers)
  ELSE _calculate_technical_indicators(data.hist)

\* the local variables kept on the service instance, where every call finds
\* those of the call that wrote last
frame_of_instance(th) == 1

\* where the local variables of a call live: in the frame of the call
frame_of(th) == th

InitThreads ==
  /\ ticker = [FixedTicker EXCEPT !.cashflow = CashFlowFrame(Row(100), Row(-30)),
                                  !.balance_sheet = BalanceSheetFrame(Row(40), NoRow)]
  /\ peers = FixedPeerData
  /\ hist = FixedHistory
  /\ last = NoCall
  /\ NoThreads

\* a request arrives and a thread starts serving it
Begin(th) ==
  \E op \in CoreOps :
    /\ calls[th].pc = "idle"
    /\ calls' = [calls EXCEPT ![th] = [pc |-> "fetch", op |-> op, result |-> <<>>]]
    /\ UNCHANGED <<ticker, peers, hist, last, locals>>

\* ticker = yf.Ticker(symbol) and the reads of its data, into local variables
FetchData(th) ==
  /\ calls[th].pc = "fetch"
  /\ locals' = [locals EXCEPT ![frame_of(th)] = fetched_for(th)]
  /\ calls' = [calls EXCEPT ![th].pc = "compute"]
  /\ UNCHANGED <<ticker, peers, hist, last>>

\* the computation on the local variables
Compute(th) ==
  /\ calls[th].pc = "compute"
  /\ calls' = [calls EXCEPT ![th].pc = "done",
                            ![th].result = result_of(calls[th].op, locals[frame_of(th)])]
  /\ UNCHANGED <<ticker, peers, hist, last, locals>>

\* the result is returned; the frame stays as it is until the next call
Finish(th) ==
  /\ calls[th].pc = "done"
  /\ calls' = [calls EXCEPT ![th] = Idle]
  /\ UNCHANGED <<ticker, peers, hist, last, locals>>

NextThreads ==
  \E th \in Threads :
    \/ Begin(th)
    \/ FetchData(th)
    \/ Compute(th)
    \/ Finish(th)

\* concurrent requests, each for a symbol of its own
SpecThreads == InitThreads /\ [][NextThreads]_vars

(***************************************************************************)
(* Properties of calculate_dcf and calculate_sensitivity_analysis.         *)
(***************************************************************************)
IsDcfCall == last.op = "calculate_dcf"
HasValue(result) == "dcf_value_per_share" \in DOMAIN result
IsError(result)  == "error" \in DOMAIN result
ValuationFields ==
  {"dcf_value_per_share", "current_price", "upside_potential", "enterprise_value",
   "equity_value", "free_cash_flow", "terminal_value", "assumptions"}
IsErrorOnly(result) == IsError(result) /\ DOMAIN result \cap ValuationFields = {}

\* C1: whenever discount_rate <= growth_rate, calculate_dcf returns an error
\* result and none of dcf_value_per_share, enterprise_value, terminal_value.
C1_InvalidAssumptionIsError ==
  (IsDcfCall /\ last.discount_rate <= last.growth_rate)
    => /\ IsError(last.result)
       /\ DOMAIN last.result
            \cap {"dcf_value_per_share", "enterprise_value", "terminal_value"} = {}

\* the sum for year = 1..n of F * (1+g)^year / (1+d)^year
RECURSIVE DiscountedSum(_, _, _, _)
DiscountedSum(F, g, d, n) ==
  IF n = 0 THEN QInt(0)
  ELSE QAdd(DiscountedSum(F, g, d, n - 1),
            QDiv(QMul(F, QPow(QAdd(QInt(1), g), n)), QPow(QAdd(QInt(1), d), n)))

Gordon(F, g, d) == QDiv(QMul(F, QAdd(QInt(1), g)), QSub(d, g))

\* C2: for growth g < discount d, terminal_value = F*(1+g)/(d-g) and
\* enterprise_value = (sum for year = 1..5 of F*(1+g)^year/(1+d)^year)
\* + terminal_value/(1+d)^5, F being the reported free cash flow.
C2_EnterpriseValueFormula ==
  (IsDcfCall /\ HasValue(last.result) /\ last.growth_rate < last.discount_rate)
    => LET F == last.result.free_cash_flow.q
           g == QRat(last.growth_rate, 100)
           d == QRat(last.discount_rate, 100)
       IN  /\ FEq(last.result.terminal_value, Fin(Gordon(F, g, d)))
           /\ FEq(last.result.enterprise_value,
                  Fin(QAdd(DiscountedSum(F, g, d, 5),
                           QDiv(Gordon(F, g, d), QPow(QAdd(QInt(1), d), 5)))))

C2_Witness ==
  /\ IsDcfCall /\ HasValue(last.result)
  /\ last.growth_rate < last.discount_rate
  /\ FEq(last.result.free_cash_flow, FInt(70))

\* x rounded to two decimals is cents/100
RoundsTo(x, cents) ==
  /\ x.k = "fin"
  /\ QLe(QAbs(QSub(x.q, QRat(cents, 100))), QRat(1, 200))

IsExampleCall ==
  /\ IsDcfCall /\ HasValue(last.result)
  /\ last.growth_rate = 5 /\ last.discount_rate = 10
  /\ FEq(last.result.free_cash_flow, FInt(100))

ExamplePv == pv_fcf_of(FInt(100), Rate(5), Rate(10))
ExampleDiscountedTv ==
  FSub(enterprise_value_of(ExamplePv, terminal_value_of(FInt(100), Rate(5), Rate(10)), Rate(10)),
       ExamplePv)

\* C3 as stated: for growth 0.05, discount 0.10, FCF 100: terminal value 2100,
\* present value of the five years 454.92, discounted terminal value 1303.87,
\* enterprise value 1758.79 (to two decimals).
C3_ExampleAsStated ==
  IsExampleCall
    => /\ RoundsTo(last.result.terminal_value, 210000)
       /\ RoundsTo(ExamplePv, 45492)
       /\ RoundsTo(ExampleDiscountedTv, 130387)
       /\ RoundsTo(last.result.enterprise_value, 175879)

\* C3 amended: for growth 0.05, discount 0.10, FCF 100: terminal value 2100,
\* present value of the five years 435.81, discounted terminal value 1303.93,
\* enterprise value 1739.75 (to two decimals).
C3_ExampleAmended ==
  IsExampleCall
    => /\ RoundsTo(last.result.terminal_value, 210000)
       /\ RoundsTo(ExamplePv, 43581)
       /\ RoundsTo(ExampleDiscountedTv, 130393)
       /\ RoundsTo(last.result.enterprise_value, 173975)

C3_Witness == IsExampleCall /\ "Capital Expenditure" \in DOMAIN ticker.cashflow

\* the most recent value of a statement line as an integer, 0 when absent
MostRecent(frame, label) == IF label \in DOMAIN frame THEN frame[label][1] ELSE 0

\* C4: free_cash_flow = most recent Operating Cash Flow - |most recent Capital
\* Expenditure|, whatever the sign of the latter; an absent line counts 0.
C4_FreeCashFlow ==
  (IsDcfCall /\ HasValue(last.result))
    => FEq(last.result.free_cash_flow,
           FInt(MostRecent(ticker.cashflow, "Operating Cash Flow")
                - Abs(MostRecent(ticker.cashflow, "Capital Expenditure"))))

C4_Witness ==
  /\ IsDcfCall /\ HasValue(last.result)
  /\ MostRecent(ticker.cashflow, "Capital Expenditure") < 0
  /\ "Operating Cash Flow" \notin DOMAIN ticker.cashflow

SharesUnusable ==
  \/ "sharesOutstanding" \notin DOMAIN ticker.info
  \/ ticker.info["sharesOutstanding"] = PyNone
  \/ ticker.info["sharesOutstanding"].v <= 0

\* C5: whenever shares outstanding is missing, zero or negative, calculate_dcf
\* fails with an error and returns no per-share value.
C5_NoSharesIsError ==
  (IsDcfCall /\ SharesUnusable)
    => IsError(last.result) /\ ~HasValue(last.result)

PriceUsable ==
  /\ "regularMarketPrice" \in DOMAIN ticker.info
  /\ ticker.info["regularMarketPrice"] # PyNone
  /\ ticker.info["regularMarketPrice"].v > 0

\* C7: upside_potential = (value per share - current price) / current price
\* when current price > 0, and is absent (no number) when the current price
\* is zero, negative or unknown.
C7_UpsideAbsentWithoutPrice ==
  (IsDcfCall /\ HasValue(last.result))
    => IF PriceUsable
         THEN LET v == last.result.dcf_value_per_share
                  p == FInt(ticker.info["regularMarketPrice"].v)
              IN  last.result.upside_potential = FDiv(FSub(v, p), p)
         ELSE "upside_potential" \notin DOMAIN last.result

IsSensitivityCall == last.op = "calculate_sensitivity_analysis"

\* C8: the sensitivity matrix has one cell per (growth, discount) pair of the
\* grids; the cell is null for discount <= growth and holds the DCF value per
\* share for discount > growth.
C8_SensitivityNullCells ==
  IsSensitivityCall
    => \A g \in Range(growth_rates), d \in Range(discount_rates) :
         /\ g \in DOMAIN last.result.sensitivity_matrix
         /\ d \in DOMAIN last.result.sensitivity_matrix[g]
         /\ d <= g => last.result.sensitivity_matrix[g][d] = NoneCell
         /\ (d > g /\ HasValue(calculate_dcf(ticker, g, d)))
              => last.result.sensitivity_matrix[g][d]
                   = calculate_dcf(ticker, g, d).dcf_value_per_share

(***************************************************************************)
(* Properties of compare_with_peers and _calculate_percentiles.            *)
(***************************************************************************)
IsPeerCall == last.op = "compare_with_peers"
HasPercentiles == IsPeerCall /\ "valuation_percentile" \in DOMAIN last.result

\* the peers of the result with a present, positive value for the metric
Eligible(m) ==
  {i \in DOMAIN last.result.peer_comparison :
     /\ last.result.peer_comparison[i][m].t = "num"
     /\ last.result.peer_comparison[i][m].v > 0}

\* those of them strictly below the subject's value
Below(m) ==
  {i \in Eligible(m) :
     last.result.peer_comparison[i][m].v < last.result.company_metrics[m].v}

\* 100 * (members of the population strictly below the subject) / (its size)
ShareBelow(m) == QRat(100 * Cardinality(Below(m)), 1 + Cardinality(Eligible(m)))

IsExampleRanking ==
  /\ HasPercentiles
  /\ last.result.company_metrics["pe_ratio"] = PyNum(10)
  /\ Cardinality(Eligible("pe_ratio")) = 3
  /\ {last.result.peer_comparison[i]["pe_ratio"].v : i \in Eligible("pe_ratio")}
       = {5, 15, 20}

\* C9: each percentile is the share of the population (the subject's value
\* with the eligible peer values) strictly below the subject's value, which
\* is the position of its first occurrence in the ascending sort over the
\* population size, times 100; for subject 10 and peers [5, 15, 20] it is 25.
C9_PercentileIsShareBelow ==
  HasPercentiles
    => /\ \A m \in DOMAIN last.result.valuation_percentile :
            QEq(last.result.valuation_percentile[m], ShareBelow(m))
       /\ IsExampleRanking
            => QEq(last.result.valuation_percentile["pe_ratio"], QInt(25))

C9_Witness ==
  /\ IsExampleRanking
  /\ "pe_ratio" \in DOMAIN last.result.valuation_percentile

\* the sequence without its i-th element
Without(seq, i) == SubSeq(seq, 1, i - 1) \o SubSeq(seq, i + 1, Len(seq))

\* peer i has no usable value for m1 and a usable one for m2
MixedPeer(i, m1, m2) ==
  /\ i \notin Eligible(m1)
  /\ i \in Eligible(m2)
  /\ last.result.company_metrics[m2] # PyNone

\* C10: a peer whose value for a metric is absent, zero or negative is left
\* out of that metric's ranking only: it still counts in the ranking of every
\* other metric for which its value is present and positive.
C10_ExclusionIsPerMetric ==
  HasPercentiles
    => \A i \in DOMAIN last.result.peer_comparison :
         \A m1 \in Metrics, m2 \in Metrics :
           MixedPeer(i, m1, m2)
             => /\ m2 \in DOMAIN last.result.valuation_percentile
                /\ QEq(last.result.valuation_percentile[m2], ShareBelow(m2))
                /\ m1 \in DOMAIN last.result.valuation_percentile
                     => LET rest == _calculate_percentiles(
                                      last.result.company_metrics,
                                      Without(last.result.peer_comparison, i))
                        IN  /\ m1 \in DOMAIN rest
                            /\ QEq(last.result.valuation_percentile[m1], rest[m1])

C10_Witness ==
  /\ HasPercentiles
  /\ \E i \in DOMAIN last.result.peer_comparison :
       /\ MixedPeer(i, "pe_ratio", "pb_ratio")
       /\ Cardinality(Eligible("pb_ratio")) = 1
       /\ {"pe_ratio", "pb_ratio"} \subseteq DOMAIN last.result.valuation_percentile

\* the subject's value for the metric as the result reports it is not None
SubjectHasValue(m) == last.result.company_metrics[m] # PyNone

\* C11: the percentile map has an entry for a metric exactly when at least
\* one peer of the result has a present, positive value for it and the
\* subject's reported value is not None; a metric with no eligible peer has
\* no entry at all (in particular no entry of 0), and a comparison without
\* any fetched peer has an empty map.
C11_EntryIffEligiblePeer ==
  HasPercentiles
    => \A m \in Metrics :
         m \in DOMAIN last.result.valuation_percentile
           <=> (Eligible(m) # {} /\ SubjectHasValue(m))

\* some peers were fetched, none is eligible for P/E, one is for P/B
C11_Witness ==
  /\ HasPercentiles
  /\ last.result.peer_comparison # <<>>
  /\ SubjectHasValue("pe_ratio") /\ Eligible("pe_ratio") = {}
  /\ "pe_ratio" \notin DOMAIN last.result.valuation_percentile
  /\ Eligible("pb_ratio") # {}
  /\ "pb_ratio" \in DOMAIN last.result.valuation_percentile

(***************************************************************************)
(* Properties of calculate_fair_value_range and of the analysis flow.      *)
(***************************************************************************)
IsFairValueCall == last.op = "calculate_fair_value_range"
IsAnalyzeCall   == last.op = "analyze_company"
HasRange == IsFairValueCall /\ "fair_value_range" \in DOMAIN last.result

\* what the two computations of the call being served yield each on its own
DcfAlone  == calculate_dcf(Fetch(ticker, last.fetch.dcf),
                           DefaultGrowthRate, DefaultDiscountRate)
PeerAlone == compare_with_peers(Fetch(ticker, last.fetch.peers), peers)

\* the estimates that were successfully computed for the call being served
Candidates == IF HasValue(DcfAlone) THEN <<DcfAlone.dcf_value_per_share>> ELSE <<>>

MaxMethods == 4

\* C12: the confidence level of a fair-value result is 'High' exactly when
\* three or more estimates are in the candidate set and 'Medium' when one or
\* two are; with exactly one estimate it is 'Medium'.  The rule of the code
\* is also checked for every number of estimates up to MaxMethods.
C12_ConfidenceByMethods ==
  /\ HasRange
       => /\ last.result.confidence_level = "High" <=> Len(Candidates) >= 3
          /\ Len(Candidates) \in {1, 2} => last.result.confidence_level = "Medium"
  /\ \A n \in 1..MaxMethods :
       confidence_level_of(n) = IF n >= 3 THEN "High" ELSE "Medium"

C12_Witness ==
  /\ HasRange
  /\ Len(Candidates) = 1
  /\ last.result.confidence_level = "Medium"

RECURSIVE SumOf(_)
SumOf(values) == IF values = <<>> THEN FInt(0) ELSE FAdd(Head(values), SumOf(Tail(values)))

FLe(a, b) == FLt(a, b) \/ FEq(a, b)

\* C13: a returned range holds the minimum, the maximum and the arithmetic
\* mean of the candidate estimates, so minimum <= average <= maximum, and
\* valuation_methods is the number of candidates.
C13_RangeOverCandidates ==
  HasRange
    => LET range == last.result.fair_value_range
           candidates == Candidates
       IN  /\ candidates # <<>>
           /\ \E i \in DOMAIN candidates : FEq(range.minimum, candidates[i])
           /\ \A i \in DOMAIN candidates : FLe(range.minimum, candidates[i])
           /\ \E i \in DOMAIN candidates : FEq(range.maximum, candidates[i])
           /\ \A i \in DOMAIN candidates : FLe(candidates[i], range.maximum)
           /\ FEq(FMul(range.average, FInt(Len(candidates))), SumOf(candidates))
           /\ FLe(range.minimum, range.average)
           /\ FLe(range.average, range.maximum)
           /\ last.result.valuation_methods = Len(candidates)

C13_Witness ==
  /\ HasRange
  /\ FPositive(last.result.fair_value_range.average)
  /\ last.result.valuation_methods = 1

\* C14: calculate_fair_value_range returns the error 'Insufficient data for
\* fair value calculation', and no fair_value_range, exactly when the
\* candidate set is empty (no estimate was computed); otherwise it returns a
\* range and no error.
C14_ErrorIffNoCandidate ==
  IsFairValueCall
    => LET candidates == Candidates
       IN  /\ (IsError(last.result) /\ "fair_value_range" \notin DOMAIN last.result)
                <=> candidates = <<>>
           /\ candidates = <<>>
                => last.result = [error |-> "Insufficient data for fair value calculation"]
           /\ candidates # <<>> => HasRange /\ ~IsError(last.result)

\* no estimate, although the peer comparison succeeded with usable P/E values
C14_Witness ==
  /\ IsFairValueCall
  /\ Candidates = <<>>
  /\ IsError(last.result)
  /\ "peer_comparison" \in DOMAIN PeerAlone
  /\ peer_pe_ratios_of(PeerAlone.peer_comparison) # <<>>

\* the result of the call reports the outcome of the DCF
ReportsDcf ==
  IF IsAnalyzeCall
    THEN "dcf_detailed" \in DOMAIN last.result /\ last.result.dcf_detailed = DcfAlone
    ELSE HasValue(DcfAlone)
           => /\ HasRange
              /\ FEq(last.result.fair_value_range.average, DcfAlone.dcf_value_per_share)

\* the result of the call reports the outcome of the peer comparison
ReportsPeers ==
  IF IsAnalyzeCall
    THEN "peer_comparison" \in DOMAIN last.result
           /\ last.result.peer_comparison = PeerAlone
    ELSE ~IsError(PeerAlone)
           => \/ "peer_comparison" \in DOMAIN last.result
              \/ "valuation_percentile" \in DOMAIN last.result

\* C15 as stated: in the analysis flow and in calculate_fair_value_range the
\* DCF and the peer comparison are each computed and reported whatever the
\* outcome of the other.
C15_BothReportedAsStated ==
  (IsAnalyzeCall \/ IsFairValueCall) => ReportsDcf /\ ReportsPeers

\* C15 amended: in the analysis flow the DCF result and the peer comparison
\* (with its percentile map) are each reported as computed on its own,
\* whatever the outcome of the other.  calculate_fair_value_range computes
\* both and a failed peer comparison never prevents the range taken from the
\* DCF, but it never reports the peer comparison: when the DCF fails its
\* result is the error alone, even though the peer comparison succeeded.
C15_IndependentAmended ==
  /\ IsAnalyzeCall => ReportsDcf /\ ReportsPeers
  /\ IsFairValueCall
       => /\ ReportsDcf
          /\ ~HasValue(DcfAlone)
               => last.result = [error |-> "Insufficient data for fair value calculation"]
          /\ "peer_comparison" \notin DOMAIN last.result
          /\ "valuation_percentile" \notin DOMAIN last.result

\* the analysis of a subject whose DCF failed and whose peers were ranked
C15_Witness ==
  /\ IsAnalyzeCall
  /\ IsError(last.result.dcf_detailed)
  /\ "valuation_percentile" \in DOMAIN last.result.peer_comparison
  /\ DOMAIN last.result.peer_comparison.valuation_percentile # {}

(***************************************************************************)
(* The equity bridge of calculate_dcf.                                     *)
(***************************************************************************)
\* the same float value: equal finite numbers, the same infinity, or nan on
\* both sides (an undefined enterprise value makes every figure derived
\* from it undefined)
SameFloat(a, b) ==
  \/ FEq(a, b)
  \/ a.k = "inf" /\ b.k = "inf" /\ a.q.s = b.q.s
  \/ a.k = "nan" /\ b.k = "nan"

SharesKnownPositive ==
  /\ "sharesOutstanding" \in DOMAIN ticker.info
  /\ ticker.info["sharesOutstanding"].t = "num"
  /\ ticker.info["sharesOutstanding"].v > 0

\* C20: in every result of calculate_dcf that carries a value, equity_value
\* is enterprise_value minus the most recent total debt plus the most recent
\* cash (a line missing from the balance sheet counts as 0), and with
\* shares outstanding > 0 the value per share times the shares outstanding
\* is the equity value.
C20_EquityBridge ==
  (IsDcfCall /\ HasValue(last.result))
    => /\ SameFloat(last.result.equity_value,
                    FAdd(FSub(last.result.enterprise_value,
                              FInt(MostRecent(ticker.balance_sheet, "Total Debt"))),
                         FInt(MostRecent(ticker.balance_sheet, "Cash"))))
       /\ SharesKnownPositive
            => SameFloat(FMul(last.result.dcf_value_per_share,
                              FInt(ticker.info["sharesOutstanding"].v)),
                         last.result.equity_value)

C20_Witness ==
  /\ IsDcfCall /\ HasValue(last.result)
  /\ last.growth_rate < last.discount_rate
  /\ {"Total Debt", "Cash"} \subseteq DOMAIN ticker.balance_sheet
  /\ SharesKnownPositive
  /\ FPositive(last.result.enterprise_value)
  /\ ~FEq(last.result.equity_value, last.result.enterprise_value)

(***************************************************************************)
(* Properties of _calculate_technical_indicators.                          *)
(***************************************************************************)
IsIndicatorCall == last.op = "calculate_technical_indicators"
Sections == {"moving_averages", "rsi", "macd", "bollinger_bands"}

\* C16: for a non-empty price series of fewer than 20 bars the indicator
\* snapshot is produced (not the empty dict of the fault handler), sma_20 and
\* the upper and lower Bollinger bands are the fallback 0, and the RSI and
\* MACD sections are there with their values.
C16_ShortSeriesFallback ==
  (IsIndicatorCall /\ hist # <<>> /\ Len(hist) < BollingerWindow)
    => /\ DOMAIN last.result = Sections
       /\ last.result.moving_averages.sma_20 = FInt(0)
       /\ last.result.bollinger_bands.upper = FInt(0)
       /\ last.result.bollinger_bands.lower = FInt(0)
       /\ last.result.rsi.value.k = "fin"
       /\ last.result.macd.value.k = "fin"
       /\ last.result.macd.signal.k = "fin"

\* 19 rising bars: no SMA20 and no bands, yet RSI 100 and a positive MACD
C16_Witness ==
  /\ IsIndicatorCall
  /\ Len(hist) = BollingerWindow - 1
  /\ last.result.moving_averages.sma_20 = FInt(0)
  /\ FEq(last.result.rsi.value, FInt(100))
  /\ FPositive(last.result.macd.value)

\* C17: for every non-empty price series the RSI value of the snapshot lies
\* in [0, 100]: 50 with fewer bars than the RSI window or with constant
\* closes, 100 with only rising closes, 0 with only falling closes.
C17_RsiInRange ==
  (IsIndicatorCall /\ hist # <<>>)
    => /\ FLe(FInt(0), last.result.rsi.value)
       /\ FLe(last.result.rsi.value, FInt(100))

\* only rising closes over a full RSI window
C17_Witness ==
  /\ IsIndicatorCall
  /\ Len(hist) > RsiWindow
  /\ \A i \in 2..Len(hist) : hist[i] > hist[i - 1]
  /\ FEq(last.result.rsi.value, FInt(100))

\* C19: under every interleaving of the threads' steps, a call that has
\* fetched still holds in its local variables what the provider gave it for
\* its own symbol (no other call wrote them), and a finished call has the
\* result the same computation returns when run alone on that data.
C19_NoInterference ==
  \A th \in Threads :
    /\ calls[th].pc \in {"compute", "done"}
         => locals[frame_of(th)] = fetched_for(th)
    /\ calls[th].pc = "done"
         => calls[th].result = result_of(calls[th].op, fetched_for(th))

\* one call has finished a DCF with a value while another call, for another
\* symbol, holds its own data and is yet to compute its indicators
C19_Witness ==
  \E th \in Threads, other \in Threads :
    /\ th # other
    /\ calls[th].pc = "done"
    /\ calls[th].op = "calculate_dcf"
    /\ "dcf_value_per_share" \in DOMAIN calls[th].result
    /\ calls[other].pc = "compute"
    /\ calls[other].op = "calculate_technical_indicators"
    /\ locals[other] # locals[th]

(***************************************************************************)
(* Properties of the RSI, the moving averages and the Bollinger bands.     *)
(***************************************************************************)
\* no close of the last RsiWindow bars is below the close before it
NoFallingClose ==
  \A i \in (Len(hist) - RsiWindow + 1)..Len(hist) : i > 1 => hist[i] >= hist[i - 1]

\* C21: whenever the 14-period average loss at the last bar is 0 (no falling
\* close in the window, constant closes included), the reported RSI is 100.
C21_ZeroLossIs100 ==
  (IsIndicatorCall /\ Len(hist) > RsiWindow /\ NoFallingClose)
    => FEq(last.result.rsi.value, FInt(100))

\* the labels that take no side
NeutralLabels == {"Neutral", "Middle"}

\* C22: when the history is too short for an indicator's window (fewer than
\* 20, 50 or 200 closes for the moving averages, fewer than 20 for
\* Bollinger, fewer than 15 for RSI), every output of that indicator is the
\* fallback: 0 (50 for the RSI) for the number and a neutral label, the
\* price_vs_sma labels included.
C22_ShortHistoryFallback ==
  (IsIndicatorCall /\ hist # <<>>)
    => /\ Len(hist) < 20
            => /\ last.result.moving_averages.sma_20 = FInt(0)
               /\ last.result.moving_averages.price_vs_sma_20 \in NeutralLabels
       /\ Len(hist) < 50
            => /\ last.result.moving_averages.sma_50 = FInt(0)
               /\ last.result.moving_averages.price_vs_sma_50 \in NeutralLabels
       /\ Len(hist) < 200
            => /\ last.result.moving_averages.sma_200 = FInt(0)
               /\ last.result.moving_averages.price_vs_sma_200 \in NeutralLabels
       /\ Len(hist) < BollingerWindow
            => /\ last.result.bollinger_bands.upper = FInt(0)
               /\ last.result.bollinger_bands.lower = FInt(0)
               /\ last.result.bollinger_bands.position \in NeutralLabels
       /\ Len(hist) < RsiWindow + 1
            => /\ last.result.rsi.value = FInt(50)
               /\ last.result.rsi.interpretation \in NeutralLabels

\* the last BollingerWindow closes, their sum and the sum of their squares
LastCloses   == Window(hist, BollingerWindow)
CloseSum     == Sum(LastCloses)
CloseSquares == Sum([i \in DOMAIN LastCloses |-> LastCloses[i] * LastCloses[i]])
\* BollingerWindow times the distance of the last close from the mean
Distance     == BollingerWindow * hist[Len(hist)] - CloseSum
\* the last close is further than two standard deviations (sample deviation,
\* as pandas takes it) from the mean:
\* (p - S/n)^2 > 4 * (n * SS - S^2) / (n * (n - 1))
BeyondBand ==
  (BollingerWindow - 1) * Distance * Distance
    > 4 * BollingerWindow * (BollingerWindow * CloseSquares - CloseSum * CloseSum)

\* C23: for a price series of at least 20 bars the reported bands are
\* SMA20 + 2 * stddev and SMA20 - 2 * stddev of the last 20 closes (sample
\* deviation), so lower <= SMA20 <= upper, and the position is 'Upper' iff
\* the last close is above the upper band, 'Lower' iff it is below the lower
\* band and 'Middle' otherwise.
C23_BollingerBands ==
  (IsIndicatorCall /\ Len(hist) >= BollingerWindow)
    => LET bands == last.result.bollinger_bands
           sma_20 == last.result.moving_averages.sma_20
       IN  /\ sma_20.k = "fin" /\ QEq(sma_20.q, QRat(CloseSum, BollingerWindow))
           /\ bands.upper.k = "fin" /\ bands.lower.k = "fin"
           /\ QEq(bands.upper.q, sma_20.q) /\ QEq(bands.lower.q, sma_20.q)
           /\ bands.upper.c = 2 /\ bands.lower.c = -2
           /\ bands.upper.r.s >= 0
           /\ QEq(bands.upper.r, QRat(BollingerWindow * CloseSquares - CloseSum * CloseSum,
                                      BollingerWindow * (BollingerWindow - 1)))
           /\ QEq(bands.lower.r, bands.upper.r)
           /\ bands.position = "Upper" <=> (Distance > 0 /\ BeyondBand)
           /\ bands.position = "Lower" <=> (Distance < 0 /\ BeyondBand)
           /\ bands.position \in {"Upper", "Lower", "Middle"}

\* level closes and a jump at the last bar: the close is above the upper band
C23_Witness ==
  /\ IsIndicatorCall
  /\ Len(hist) >= BollingerWindow
  /\ last.result.bollinger_bands.position = "Upper"
  /\ last.result.bollinger_bands.upper.r.s > 0

(***************************************************************************)
(* Further properties of compare_with_peers and _calculate_percentiles.    *)
(***************************************************************************)
\* the eligible peers of the result other than the subject itself
OtherEligible(m) ==
  {i \in Eligible(m) : last.result.peer_comparison[i].symbol # ticker.symbol}

\* C24: the ranking population of a metric is the subject together with the
\* eligible peers other than the subject, so a subject that is on its own
\* peer list is counted once: the percentile is 100 times the number of peers
\* strictly below the subject over 1 + the number of eligible other peers.
C24_SubjectCountedOnce ==
  HasPercentiles
    => \A m \in DOMAIN last.result.valuation_percentile :
         QEq(last.result.valuation_percentile[m],
             QRat(100 * Cardinality(Below(m)), 1 + Cardinality(OtherEligible(m))))

(***************************************************************************)
(* Further properties of the valuations of the analysis and of the fair    *)
(* value range.                                                            *)
(***************************************************************************)
\* the analysis holds a value from both DCF computations, taken from the
\* same most recent free cash flow
SameCashFlow ==
  /\ IsAnalyzeCall
  /\ "dcf_value" \in DOMAIN last.result.dcf_valuation
  /\ HasValue(last.result.dcf_detailed)
  /\ FEq(last.result.dcf_valuation.free_cash_flow, last.result.dcf_detailed.free_cash_flow)

\* C25: for the same most recent free cash flow and the default assumptions
\* the enterprise value reported in dcf_valuation.dcf_value equals the
\* enterprise value calculate_dcf computes.
C25_BasicDcfAgrees ==
  SameCashFlow
    => FEq(last.result.dcf_valuation.dcf_value, last.result.dcf_detailed.enterprise_value)

\* the kind of a failure, by its message: data that is missing, or a
\* computation that raised
ErrorKind(result) ==
  IF result.error \in {"No cash flow data available",
                       "Insufficient cash flow data",
                       "Insufficient data for fair value calculation"}
    THEN "InsufficientData"
  ELSE IF result.error = "DCF calculation failed: float division by zero"
    THEN "InvalidAssumption"
  ELSE "CalculationFailed"

\* C26: when the DCF, the only method that yields an estimate, fails,
\* calculate_fair_value_range fails with the error kind of the DCF failure.
C26_SameErrorKind ==
  (IsFairValueCall /\ IsError(DcfAlone))
    => /\ IsError(last.result)
       /\ ErrorKind(last.result) = ErrorKind(DcfAlone)

\* C27: in every result of calculate_fair_value_range, whatever the DCF and
\* the peer data, at most one estimate is in the candidate set (the DCF
\* value per share; the peer multiples add none), so valuation_methods is 1,
\* minimum = maximum = average, and the confidence level is never 'High'.
C27_AtMostOneEstimate ==
  IsFairValueCall
    => /\ Len(valuations_of(DcfAlone, PeerAlone)) <= 1
       /\ "confidence_level" \in DOMAIN last.result
            => last.result.confidence_level = "Medium"
       /\ HasRange
            => /\ last.result.valuation_methods = 1
               /\ HasValue(DcfAlone)
               /\ FEq(last.result.fair_value_range.minimum, DcfAlone.dcf_value_per_share)
               /\ FEq(last.result.fair_value_range.maximum, DcfAlone.dcf_value_per_share)
               /\ FEq(last.result.fair_value_range.average, DcfAlone.dcf_value_per_share)

\* a range from the DCF alone although the peers have positive P/E values
C27_Witness ==
  /\ HasRange
  /\ "peer_comparison" \in DOMAIN PeerAlone
  /\ Len(peer_pe_ratios_of(PeerAlone.peer_comparison)) >= 2
  /\ last.result.valuation_methods = 1

\* the peer records of the result in the order given by a permutation
Reordered(order) ==
  [i \in DOMAIN last.result.peer_comparison |-> last.result.peer_comparison[order[i]]]

\* C28: the percentile map is the same for every reordering of the peer
\* records: it depends only on the subject's values and on the eligible peer
\* values of each metric, whatever their order, ties with the subject's
\* value included.
C28_OrderInvariant ==
  HasPercentiles
    => \A order \in Permutations(DOMAIN last.result.peer_comparison) :
         _calculate_percentiles(last.result.company_metrics, Reordered(order))
           = last.result.valuation_percentile

\* two peers with different P/E values, one of them equal to the subject's
C28_Witness ==
  /\ HasPercentiles
  /\ "pe_ratio" \in DOMAIN last.result.valuation_percentile
  /\ \E i \in Eligible("pe_ratio"), j \in Eligible("pe_ratio") :
       /\ i < j
       /\ last.result.peer_comparison[i]["pe_ratio"].v
            = last.result.company_metrics["pe_ratio"].v
       /\ last.result.peer_comparison[j]["pe_ratio"].v
            < last.result.company_metrics["pe_ratio"].v

\* C29: every percentile of the map is at least 0 and below 100: with n
\* eligible peers it is one of 100 * k / (n + 1) for k in 0..n, so the
\* subject does not reach 100 even above every peer, and a subject whose
\* value is zero or negative is ranked all the same and gets 0.
C29_PercentileBelow100 ==
  HasPercentiles
    => \A m \in Metrics :
         /\ m \in DOMAIN last.result.valuation_percentile
              => /\ QLe(QInt(0), last.result.valuation_percentile[m])
                 /\ QLt(last.result.valuation_percentile[m], QInt(100))
                 /\ \E k \in 0..Cardinality(Eligible(m)) :
                      QEq(last.result.valuation_percentile[m],
                          QRat(100 * k, Cardinality(Eligible(m)) + 1))
         /\ (/\ Eligible(m) # {}
             /\ SubjectHasValue(m)
             /\ last.result.company_metrics[m].v <= 0)
              => /\ m \in DOMAIN last.result.valuation_percentile
                 /\ QEq(last.result.valuation_percentile[m], QInt(0))

\* the subject is above all of three peers for one metric (75) and has a
\* negative value for another, ranked 0
C29_Witness ==
  /\ HasPercentiles
  /\ \E m \in DOMAIN last.result.valuation_percentile :
       /\ Cardinality(Eligible(m)) = 3
       /\ Below(m) = Eligible(m)
       /\ QEq(last.result.valuation_percentile[m], QInt(75))
  /\ \E m \in DOMAIN last.result.valuation_percentile :
       /\ last.result.company_metrics[m].v < 0
       /\ QEq(last.result.valuation_percentile[m], QInt(0))

\* the peers of the subject's sector and the positions of those the provider
\* answers for
PeerList  == _get_peer_companies(ticker.sector)
Fetchable == {i \in DOMAIN PeerList : peers[PeerList[i].symbol].ok}
\* the positions of the result's records for the peer at position i
RecordsOf(i) ==
  {k \in DOMAIN last.result.peer_comparison :
     last.result.peer_comparison[k].symbol = PeerList[i].symbol}

\* C30: a failure while fetching one peer's data drops that peer only: every
\* peer fetched successfully, before or after a failing one, has exactly one
\* record in peer_comparison, with the values the provider gave, the records
\* are in peer-list order, there is no other record, and the percentile map
\* is computed from exactly those records.
C30_FailedPeerDroppedAlone ==
  (IsPeerCall /\ ~IsError(last.result))
    => /\ Len(last.result.peer_comparison) = Cardinality(Fetchable)
       /\ \A i \in Fetchable :
            /\ Cardinality(RecordsOf(i)) = 1
            /\ \A k \in RecordsOf(i) :
                 /\ k = Cardinality({j \in Fetchable : j <= i})
                 /\ \A m \in Metrics :
                      last.result.peer_comparison[k][m]
                        = Get(peers[PeerList[i].symbol].info, InfoKey[m], 0)
       /\ \A m \in Metrics :
            IF Eligible(m) # {} /\ SubjectHasValue(m)
              THEN /\ m \in DOMAIN last.result.valuation_percentile
                   /\ QEq(last.result.valuation_percentile[m], ShareBelow(m))
              ELSE m \notin DOMAIN last.result.valuation_percentile

\* the second peer of the list fails; the first and the third are reported
\* and ranked
C30_Witness ==
  /\ IsPeerCall
  /\ ~IsError(last.result)
  /\ Fetchable = {1, 3}
  /\ Len(last.result.peer_comparison) = 2
  /\ last.result.peer_comparison[2].symbol = PeerList[3].symbol
  /\ "pe_ratio" \in DOMAIN last.result.valuation_percentile
  /\ Cardinality(Eligible("pe_ratio")) = 2
====
